---- MODULE Spec2Model ----
(***************************************************************************)
(* Vigilis tiered log classification pipeline: RegexProcessor,             *)
(* BertProcessor, LlmProcessor and the LogClassifier that composes them    *)
(* (classify_message, batch_classify) together with the two JSON API       *)
(* endpoints of app.py that call into it.                                  *)
(*                                                                         *)
(* Text is modelled at word granularity: a str is a sequence of tokens,    *)
(* and a compiled pattern is a sequence of per-token elements.  Probabi-   *)
(* lities are integers in millionths.  Time is in milliseconds.            *)
(***************************************************************************)
EXTENDS Integers, Sequences, FiniteSets, TLC

(***************************************************************************)
(* Bounds of the model                                                     *)
(***************************************************************************)
MaxBatch == 2
TickMs == 100
MaxTokens == 6

(***************************************************************************)
(* Program constants                                                       *)
(***************************************************************************)
Threshold == 500000
PacingMs == 200
MaxRetries == 0

Threads == {1, 2}
Main == {1}

None == "None"
(* Stands for "the call raised" where a stage or classify_message would    *)
(* hand a label back.                                                      *)
Exc == "<exception>"
Unclassified == "Unclassified"
Miscellaneous == "Miscellaneous"

(***************************************************************************)
(* Text                                                                    *)
(***************************************************************************)
UserIds == {"User123", "User456"}
Numbers == {"12345"}
Dates == {"2022-01-01"}
Times == {"12:00:00"}
Versions == {"1.0.0"}

Lower(tok) ==
    CASE tok = "Unauthorized" -> "unauthorized"
      [] tok = "UNAUTHORIZED" -> "unauthorized"
      [] tok = "Blocked" -> "blocked"
      [] tok = "Suspicious" -> "suspicious"
      [] tok = "Failed" -> "failed"
      [] tok = "User" -> "user"
      [] tok = "LOGIN" -> "login"
      [] tok = "File" -> "file"
      [] tok = "Backup" -> "backup"
      [] tok = "System" -> "system"
      [] tok = "Hello" -> "hello"
      [] tok = "Account" -> "account"
      [] OTHER -> tok

Lit(w) == [kind |-> "lit", set |-> {w}, plus |-> FALSE]
Cls(S) == [kind |-> "cls", set |-> S, plus |-> FALSE]
AnyPlus == [kind |-> "any", set |-> {}, plus |-> TRUE]

(* One pattern element against one token; re.I compares case-folded text.  *)
ElemOk(e, tok, ci) ==
    \/ e.kind = "any"
    \/ tok \in e.set
    \/ ci /\ \E w \in e.set : Lower(w) = Lower(tok)

(* The element sequence pat matches the token sequence s from its first    *)
(* token on: all of s when whole is set ("$" follows), a prefix otherwise. *)
RECURSIVE MatchHere(_, _, _, _)
MatchHere(pat, s, ci, whole) ==
    IF pat = <<>> THEN ~whole \/ s = <<>>
    ELSE IF s = <<>> THEN FALSE
    ELSE /\ ElemOk(Head(pat), Head(s), ci)
         /\ \/ MatchHere(Tail(pat), Tail(s), ci, whole)
            \/ Head(pat).plus /\ MatchHere(pat, Tail(s), ci, whole)

(* pattern.search(text) for one compiled rule: an anchored rule (^...$)    *)
(* must cover the whole text, an unanchored one may start at any word.     *)
Search(rule, s) ==
    \E a \in 1..Len(rule.alts) :
        IF rule.anchored
        THEN MatchHere(rule.alts[a], s, rule.ci, TRUE)
        ELSE \E i \in 1..Len(s) :
                 MatchHere(rule.alts[a], SubSeq(s, i, Len(s)), rule.ci, FALSE)

Rule(alts, anchored, ci, label) ==
    [alts |-> alts, anchored |-> anchored, ci |-> ci, label |-> label]

REGEX_RULES ==
    << Rule(<< <<Lit("User"), Cls(UserIds), Lit("logged"), Cls({"in", "out"}), Lit(".")>> >>,
            TRUE, FALSE, "USER_ACTION"),
       Rule(<< <<Lit("Account"), Lit("with"), Lit("ID"), Cls(Numbers), Lit("created"),
                 Lit("by"), Cls(UserIds), Lit(".")>> >>,
            TRUE, FALSE, "USER_ACTION"),
       Rule(<< <<Lit("Backup"), Lit("started"), Lit("at"), Cls(Dates), Cls(Times), Lit(".")>> >>,
            TRUE, FALSE, "SYSTEM_NOTIFICATION"),
       Rule(<< <<Lit("Backup"), Lit("ended"), Lit("at"), Cls(Dates), Cls(Times), Lit(".")>> >>,
            TRUE, FALSE, "SYSTEM_NOTIFICATION"),
       Rule(<< <<Lit("Backup"), Lit("completed"), Lit("successfully"), Lit(".")>> >>,
            TRUE, FALSE, "SYSTEM_NOTIFICATION"),
       Rule(<< <<Lit("System"), Lit("updated"), Lit("to"), Lit("version"), Cls(Versions),
                 Lit(".")>> >>,
            TRUE, FALSE, "SYSTEM_NOTIFICATION"),
       Rule(<< <<Lit("File"), AnyPlus, Lit("uploaded"), Lit("successfully"), Lit("by"),
                 Lit("user"), Cls(UserIds), Lit(".")>> >>,
            TRUE, FALSE, "SYSTEM_NOTIFICATION"),
       Rule(<< <<Lit("Disk"), Lit("cleanup"), Lit("completed"), Lit("successfully"),
                 Lit(".")>> >>,
            TRUE, FALSE, "SYSTEM_NOTIFICATION"),
       Rule(<< <<Lit("System"), Lit("reboot"), Lit("initiated"), Lit("by"), Lit("user"),
                 Cls(UserIds), Lit(".")>> >>,
            TRUE, FALSE, "SYSTEM_NOTIFICATION"),
       Rule(<< <<Lit("User"), Lit("login"), Lit("successful"), Lit(".")>> >>,
            TRUE, TRUE, "USER_ACTION"),
       Rule(<< <<Lit("unauthorized")>>, <<Lit("failed"), Lit("login")>>,
               <<Lit("blocked")>>, <<Lit("suspicious")>> >>,
            FALSE, TRUE, "SECURITY_ALERT") >>

(* A message value: a str (its words) or any other object.                 *)
Str(toks) == [isStr |-> TRUE, toks |-> toks]
NonStr == [isStr |-> FALSE, toks |-> <<>>]

(* The loop running to the end of the list, a later match replacing an    *)
(* earlier one.                                                            *)
RECURSIVE FirstMatch_LastWins(_, _)
FirstMatch_LastWins(rules, s) ==
    IF rules = <<>> THEN None
    ELSE LET later == FirstMatch_LastWins(Tail(rules), s) IN
         IF later # None THEN later
         ELSE IF Search(Head(rules), s) THEN Head(rules).label
         ELSE None

(* RegexProcessor.classify over a rule list: the loop returns at the first *)
(* rule that matches; searching a non-str raises inside the try and the    *)
(* handler returns None.                                                   *)
RECURSIVE FirstMatch(_, _)
FirstMatch(rules, s) ==
    IF rules = <<>> THEN None
    ELSE IF Search(Head(rules), s) THEN Head(rules).label
    ELSE FirstMatch(Tail(rules), s)

(* classify without its try/except: searching a non-str raises TypeError  *)
(* out of the method.                                                      *)
RegexClassify_NoCatch(rules, message) ==
    IF ~message.isStr THEN Exc
    ELSE FirstMatch(rules, message.toks)

RegexClassify(rules, message) ==
    IF ~message.isStr THEN None
    ELSE FirstMatch(rules, message.toks)

(***************************************************************************)
(* BertProcessor                                                           *)
(***************************************************************************)
LABEL_MAP ==
    [i \in 0..4 |->
        CASE i = 0 -> "Critical Error"
          [] i = 1 -> "Error"
          [] i = 2 -> "HTTP Status"
          [] i = 3 -> "Resource Usage"
          [] i = 4 -> "Security Alert"]

(* dict.get(key, default) *)
Get(map, key, default) == IF key \in DOMAIN map THEN map[key] ELSE default

(* ndarray.max() over one row of class probabilities *)
SeqMax(p) == CHOOSE m \in {p[i] : i \in 1..Len(p)} : \A i \in 1..Len(p) : p[i] <= m

(* What the two artifacts answer for one message: which call raises, if    *)
(* any, the row predict_proba returns and the class index predict returns. *)
BertAnswer(fault, proba, pred) == [fault |-> fault, proba |-> proba, pred |-> pred]

BertAnswers ==
    { BertAnswer("encode", <<>>, 0),
      BertAnswer("predict_proba", <<>>, 0),
      BertAnswer("predict", <<600000, 400000>>, 0),
      BertAnswer("none", <<499999, 300000, 200001>>, 0),
      BertAnswer("none", <<500000, 300000, 200000>>, 0),
      BertAnswer("none", <<100000, 900000>>, 4),
      BertAnswer("none", <<50000, 50000, 50000, 50000, 50000, 750000>>, 5) }

(* The confidence test with <= in place of < *)
Gated_Inclusive(max_proba) == max_proba <= Threshold

(* The confidence test of classify *)
Gated(max_proba) == max_proba < Threshold

(* The class index (0-based) at which a distribution has its maximum *)
ArgMax(p) == (CHOOSE i \in 1..Len(p) : p[i] = SeqMax(p) /\ \A j \in 1..(i - 1) : p[j] < p[i]) - 1

(* BertProcessor.classify: the label, the branch that produced it and the  *)
(* model calls it made.                                                    *)
BertResult(label, via, ops) == [label |-> label, via |-> via, ops |-> ops]

(* classify without its try/except: a fault of encode, predict_proba or    *)
(* predict leaves the method.                                              *)
BertClassify_NoCatch(transformer, clf, label_map, a) ==
    IF transformer = None \/ clf = None
    THEN BertResult(Unclassified, "uninit", <<>>)
    ELSE IF a.fault = "encode"
    THEN BertResult(Exc, "raise", <<"encode">>)
    ELSE IF a.fault = "predict_proba"
    THEN BertResult(Exc, "raise", <<"encode", "predict_proba">>)
    ELSE IF Gated(SeqMax(a.proba))
    THEN BertResult(Unclassified, "gate", <<"encode", "predict_proba">>)
    ELSE IF a.fault = "predict"
    THEN BertResult(Exc, "raise", <<"encode", "predict_proba", "predict">>)
    ELSE BertResult(Get(label_map, a.pred, Unclassified), "map",
                    <<"encode", "predict_proba", "predict">>)

(* classify with a handler around encode only *)
BertClassify_CatchEncodeOnly(transformer, clf, label_map, a) ==
    IF transformer = None \/ clf = None
    THEN BertResult(Unclassified, "uninit", <<>>)
    ELSE IF a.fault = "encode"
    THEN BertResult(Unclassified, "except", <<"encode">>)
    ELSE IF a.fault = "predict_proba"
    THEN BertResult(Exc, "raise", <<"encode", "predict_proba">>)
    ELSE IF Gated(SeqMax(a.proba))
    THEN BertResult(Unclassified, "gate", <<"encode", "predict_proba">>)
    ELSE IF a.fault = "predict"
    THEN BertResult(Exc, "raise", <<"encode", "predict_proba", "predict">>)
    ELSE BertResult(Get(label_map, a.pred, Unclassified), "map",
                    <<"encode", "predict_proba", "predict">>)

(* classify taking the index from the distribution instead of asking      *)
(* predict for it                                                          *)
BertClassify_ArgMax(transformer, clf, label_map, a) ==
    IF transformer = None \/ clf = None
    THEN BertResult(Unclassified, "uninit", <<>>)
    ELSE IF a.fault = "encode"
    THEN BertResult(Unclassified, "except", <<"encode">>)
    ELSE IF a.fault = "predict_proba"
    THEN BertResult(Unclassified, "except", <<"encode", "predict_proba">>)
    ELSE IF Gated(SeqMax(a.proba))
    THEN BertResult(Unclassified, "gate", <<"encode", "predict_proba">>)
    ELSE BertResult(Get(label_map, ArgMax(a.proba), Unclassified), "map",
                    <<"encode", "predict_proba">>)

(* classify with "and" in its guard: it returns early only when both      *)
(* artifacts are absent.                                                   *)
BertClassify_GuardBoth(transformer, clf, label_map, a) ==
    IF transformer = None /\ clf = None
    THEN BertResult(Unclassified, "uninit", <<>>)
    ELSE IF a.fault = "encode" \/ transformer = None
    THEN BertResult(Unclassified, "except", <<"encode">>)
    ELSE IF a.fault = "predict_proba" \/ clf = None
    THEN BertResult(Unclassified, "except", <<"encode", "predict_proba">>)
    ELSE IF Gated(SeqMax(a.proba))
    THEN BertResult(Unclassified, "gate", <<"encode", "predict_proba">>)
    ELSE IF a.fault = "predict"
    THEN BertResult(Unclassified, "except", <<"encode", "predict_proba", "predict">>)
    ELSE BertResult(Get(label_map, a.pred, Unclassified), "map",
                    <<"encode", "predict_proba", "predict">>)

BertClassify(transformer, clf, label_map, a) ==
    IF transformer = None \/ clf = None
    THEN BertResult(Unclassified, "uninit", <<>>)
    ELSE IF a.fault = "encode"
    THEN BertResult(Unclassified, "except", <<"encode">>)
    ELSE IF a.fault = "predict_proba"
    THEN BertResult(Unclassified, "except", <<"encode", "predict_proba">>)
    ELSE IF Gated(SeqMax(a.proba))
    THEN BertResult(Unclassified, "gate", <<"encode", "predict_proba">>)
    ELSE IF a.fault = "predict"
    THEN BertResult(Unclassified, "except", <<"encode", "predict_proba", "predict">>)
    ELSE BertResult(Get(label_map, a.pred, Unclassified), "map",
                    <<"encode", "predict_proba", "predict">>)

(***************************************************************************)
(* LlmProcessor                                                            *)
(***************************************************************************)
OpenTag == "<label>"
CloseTag == "</label>"
Whitespace == {" ", "\n"}

(* What the backend does with one request: the create call raises, times   *)
(* out, or returns a completion with a list of choices, each carrying a    *)
(* message content that is a str or None.                                  *)
LlmRaise == [kind |-> "raise", choices |-> <<>>]
LlmTimeout == [kind |-> "timeout", choices |-> <<>>]
LlmResponse(choices) == [kind |-> "response", choices |-> choices]

LlmAnswers ==
    { LlmRaise,
      LlmTimeout,
      LlmResponse(<< NonStr >>),
      LlmResponse(<< Str(<<>>) >>),
      LlmResponse(<< Str(<<"I", " ", "cannot", " ", "tell">>) >>),
      LlmResponse(<< Str(<<"Sure", " ", OpenTag, " ", "Workflow Error", "\n", CloseTag,
                           OpenTag, "Error", CloseTag>>) >>) }

(* The pattern with a greedy group in place of the non-greedy one: the    *)
(* span runs to the last closing tag.                                      *)
LabelSpan_Greedy(toks) ==
    LET opens == {i \in 1..Len(toks) :
                     /\ toks[i] = OpenTag
                     /\ \E j \in (i+1)..Len(toks) : toks[j] = CloseTag}
    IN  IF opens = {} THEN <<0, 0>>
        ELSE LET i == CHOOSE a \in opens : \A b \in opens : a <= b
                 closes == {j \in (i+1)..Len(toks) : toks[j] = CloseTag}
                 j == CHOOSE a \in closes : \A b \in closes : a >= b
             IN  <<i, j>>

(* re.search(r"<label>(.*?)<\/label>", res, flags=re.DOTALL): the leftmost *)
(* opening tag that has a closing tag after it, and the nearest such       *)
(* closing tag.  <<0, 0>> when there is no match.                          *)
LabelSpan(toks) ==
    LET opens == {i \in 1..Len(toks) :
                     /\ toks[i] = OpenTag
                     /\ \E j \in (i+1)..Len(toks) : toks[j] = CloseTag}
    IN  IF opens = {} THEN <<0, 0>>
        ELSE LET i == CHOOSE a \in opens : \A b \in opens : a <= b
                 closes == {j \in (i+1)..Len(toks) : toks[j] = CloseTag}
                 j == CHOOSE a \in closes : \A b \in closes : a <= b
             IN  <<i, j>>

(* str.strip() *)
RECURSIVE LStrip(_)
LStrip(s) == IF s # <<>> /\ Head(s) \in Whitespace THEN LStrip(Tail(s)) ELSE s
RECURSIVE RStrip(_)
RStrip(s) ==
    IF s # <<>> /\ s[Len(s)] \in Whitespace THEN RStrip(SubSeq(s, 1, Len(s) - 1)) ELSE s
Strip(s) == LStrip(RStrip(s))

(* The text of a token sequence *)
RECURSIVE Join(_)
Join(s) == IF s = <<>> THEN "" ELSE Head(s) \o Join(Tail(s))

(* The part of classify inside the try, after create has returned.         *)
ParseResponse(a) ==
    IF a.choices = <<>> THEN [raised |-> TRUE, label |-> ""]
    ELSE LET res == a.choices[1] IN
         IF ~res.isStr THEN [raised |-> TRUE, label |-> ""]
         ELSE LET span == LabelSpan(res.toks) IN
              IF span # <<0, 0>>
              THEN [raised |-> FALSE,
                    label |-> Join(Strip(SubSeq(res.toks, span[1] + 1, span[2] - 1)))]
              ELSE [raised |-> FALSE, label |-> Miscellaneous]

(* LlmProcessor.classify: the label, the branch that produced it and the   *)
(* number of requests sent to the backend.                                 *)
LlmResult(label, via, requests) == [label |-> label, via |-> via, requests |-> requests]

(* The requests the client sends for one create() call with the SDK's     *)
(* default of two retries.                                                 *)
Attempts_Default(a) == IF a.kind = "response" THEN 1 ELSE 3

(* The requests the client sends for one create() call: a failed or        *)
(* timed-out request is sent again max_retries times.                      *)
Attempts(a) == IF a.kind = "response" THEN 1 ELSE 1 + MaxRetries

(* classify without its try/except around the request and the parsing     *)
LlmClassify_NoCatch(groq, a) ==
    IF groq = None THEN LlmResult(Unclassified, "noclient", 0)
    ELSE IF a.kind # "response" THEN LlmResult(Exc, "raise", 1)
    ELSE LET p == ParseResponse(a) IN
         IF p.raised THEN LlmResult(Exc, "raise", 1)
         ELSE LlmResult(p.label, "parsed", 1)

(* classify building a client of its own when __init__ left none          *)
LlmClassify_LazyClient(groq, a) ==
    IF a.kind # "response" THEN LlmResult(Unclassified, "except", 1)
    ELSE LET p == ParseResponse(a) IN
         IF p.raised THEN LlmResult(Unclassified, "except", 1)
         ELSE LlmResult(p.label, "parsed", 1)

LlmClassify(groq, a) ==
    IF groq = None THEN LlmResult(Unclassified, "noclient", 0)
    ELSE IF a.kind # "response" THEN LlmResult(Unclassified, "except", Attempts(a))
    ELSE LET p == ParseResponse(a) IN
         IF p.raised THEN LlmResult(Unclassified, "except", Attempts(a))
         ELSE LlmResult(p.label, "parsed", Attempts(a))


(***************************************************************************)
(* State                                                                   *)
(***************************************************************************)
VARIABLES
    env,             \* what construction finds: the model files and the client's credentials
    constructed,     \* "new", "ok" (a LogClassifier exists) or "failed"
    regex_rules,     \* regex_processor.REGEX_RULES
    label_map,       \* bert_processor.LABEL_MAP
    transformer,     \* bert_processor.transformer
    clf,             \* bert_processor.clf
    groq,            \* llm_processor.groq
    now,             \* wall clock, ms
    pc,              \* per thread: "idle", "loop" (head of the for loop), "sleep"
    entry,           \* per thread: the entry point of the call in progress
    logs,            \* per thread: the argument of batch_classify
    idx,             \* per thread: position of the for loop in logs (1-based)
    results,         \* per thread: the local list results
    wake,            \* per thread: when the current time.sleep ends
    last,            \* per thread: the latest classify_message call of the current call
    first,           \* per thread: when the first classification of the batch started
    ret              \* per thread: outcome of the latest finished call

classifier == <<constructed, regex_rules, label_map, transformer, clf, groq>>
vars == <<env, constructed, regex_rules, label_map, transformer, clf, groq, now, pc, entry,
          logs, idx, results, wake, last, first, ret>>

(***************************************************************************)
(* LogClassifier.classify_message                                          *)
(***************************************************************************)
NoBert == BertResult("", "skipped", <<>>)
NoLlm == LlmResult("", "skipped", 0)
NoBertAnswer == BertAnswer("unused", <<>>, 0)
NoLlmAnswer == [kind |-> "unused", choices |-> <<>>]

NoCall ==
    [called |-> FALSE, source |-> "", message |-> Str(<<>>), stages |-> <<>>,
     regex |-> None, bert |-> NoBert, llm |-> NoLlm, ba |-> NoBertAnswer,
     la |-> NoLlmAnswer, label |-> "", raised |-> FALSE, start |-> 0, end |-> 0]

CallRec(src, message, stages, regex, bert, llm, ba, la, label) ==
    [called |-> TRUE, source |-> src, message |-> message, stages |-> stages,
     regex |-> regex, bert |-> bert, llm |-> llm, ba |-> ba, la |-> la,
     label |-> label, raised |-> label = Exc, start |-> 0, end |-> 0]

(* classify_message asking the BERT stage before the regex stage          *)
ClassifyMessage_BertFirst(src, message) ==
    UNION {
        LET b == BertClassify(transformer, clf, label_map, ba)
            r == RegexClassify(regex_rules, message)
        IN  IF b.label # Unclassified
            THEN {CallRec(src, message, <<"bert">>, None, b, NoLlm, ba, NoLlmAnswer, b.label)}
            ELSE IF r # None
            THEN {CallRec(src, message, <<"bert", "regex">>, r, b, NoLlm, ba, NoLlmAnswer, r)}
            ELSE {LET l == LlmClassify(groq, la) IN
                  CallRec(src, message, <<"bert", "regex", "llm">>, r, b, l, ba,
                          IF l.requests > 0 THEN la ELSE NoLlmAnswer, l.label)
                  : la \in LlmAnswers}
        : ba \in BertAnswers}

(* classify_message asking all three stages first and choosing afterwards  *)
ClassifyMessage_Eager(src, message) ==
    LET r == RegexClassify(regex_rules, message) IN
    UNION {
        {LET b == BertClassify(transformer, clf, label_map, ba)
             l == LlmClassify(groq, la)
         IN  CallRec(src, message, <<"regex", "bert", "llm">>, r, b, l, ba,
                     IF l.requests > 0 THEN la ELSE NoLlmAnswer,
                     IF r # None THEN r ELSE IF b.label # Unclassified THEN b.label
                     ELSE l.label)
         : la \in LlmAnswers}
        : ba \in BertAnswers}

(* classify_message with a regex stage that looks at the source: records  *)
(* of LegacyCRM are never matched.                                         *)
ClassifyMessage_RegexBySource(src, message) ==
    LET r == IF src = "LegacyCRM" THEN None ELSE RegexClassify(regex_rules, message) IN
    IF r # None
    THEN {CallRec(src, message, <<"regex">>, r, NoBert, NoLlm, NoBertAnswer, NoLlmAnswer, r)}
    ELSE UNION {
        LET b == BertClassify(transformer, clf, label_map, ba)
            asked == IF b.ops = <<>> THEN NoBertAnswer ELSE ba
        IN  IF b.label # Unclassified
            THEN {CallRec(src, message, <<"regex", "bert">>, r, b, NoLlm, asked,
                          NoLlmAnswer, b.label)}
            ELSE {LET l == LlmClassify(groq, la) IN
                  CallRec(src, message, <<"regex", "bert", "llm">>, r, b, l, asked,
                          IF l.requests > 0 THEN la ELSE NoLlmAnswer, l.label)
                  : la \in LlmAnswers}
        : ba \in BertAnswers}

(* classify_message as the class docstring describes it: a record from    *)
(* LegacyCRM goes to the LLM stage first.                                  *)
ClassifyMessage_LlmForSource(src, message) ==
    LET r == RegexClassify(regex_rules, message) IN
    IF src = "LegacyCRM"
    THEN {LET l == LlmClassify(groq, la) IN
          CallRec(src, message, <<"llm">>, None, NoBert, l, NoBertAnswer,
                  IF l.requests > 0 THEN la ELSE NoLlmAnswer, l.label)
          : la \in LlmAnswers}
    ELSE IF r # None
    THEN {CallRec(src, message, <<"regex">>, r, NoBert, NoLlm, NoBertAnswer, NoLlmAnswer, r)}
    ELSE UNION {
        LET b == BertClassify(transformer, clf, label_map, ba)
            asked == IF b.ops = <<>> THEN NoBertAnswer ELSE ba
        IN  IF b.label # Unclassified
            THEN {CallRec(src, message, <<"regex", "bert">>, r, b, NoLlm, asked,
                          NoLlmAnswer, b.label)}
            ELSE {LET l == LlmClassify(groq, la) IN
                  CallRec(src, message, <<"regex", "bert", "llm">>, r, b, l, asked,
                          IF l.requests > 0 THEN la ELSE NoLlmAnswer, l.label)
                  : la \in LlmAnswers}
        : ba \in BertAnswers}

(* classify_message(src, message): every way the call can go, one for     *)
(* each answer the BERT artifacts and the backend may give when they are   *)
(* asked.  Each records the label returned, the stages invoked, in order,  *)
(* and what each of them returned.  A stage call that raises ends the call *)
(* there: classify_message has no handler of its own.                      *)
ClassifyMessage(src, message) ==
    LET r == RegexClassify(regex_rules, message) IN
    IF r # None
    THEN {CallRec(src, message, <<"regex">>, r, NoBert, NoLlm, NoBertAnswer, NoLlmAnswer, r)}
    ELSE UNION {
        LET b == BertClassify(transformer, clf, label_map, ba)
            asked == IF b.ops = <<>> THEN NoBertAnswer ELSE ba
        IN  IF b.label # Unclassified
            THEN {CallRec(src, message, <<"regex", "bert">>, r, b, NoLlm, asked,
                          NoLlmAnswer, b.label)}
            ELSE {LET l == LlmClassify(groq, la) IN
                  CallRec(src, message, <<"regex", "bert", "llm">>, r, b, l, asked,
                          IF l.requests > 0 THEN la ELSE NoLlmAnswer, l.label)
                  : la \in LlmAnswers}
        : ba \in BertAnswers}

(* A request to the backend takes time; the local stages are taken as      *)
(* instantaneous.                                                          *)
Duration(c) == IF c.llm.requests > 0 THEN TickMs ELSE 0

Timed(c) == [c EXCEPT !.start = now, !.end = now + Duration(c)]

(* What the caller of classify_message gets *)
Outcome(c) == IF c.raised THEN [kind |-> "raise", exc |-> "Exception", label |-> "",
                                labels |-> <<>>, body |-> <<>>]
              ELSE [kind |-> "return", exc |-> "", label |-> c.label,
                    labels |-> <<>>, body |-> <<>>]

(* results.insert(0, label) in place of results.append(label) *)
AppendResult_Front(res, label) == <<label>> \o res

(* results.append(label) *)
AppendResult(res, label) == Append(res, label)

(* The sleep taken only after a record that went to the backend *)
WakeTime_OnlyAfterLlm(c) == IF c.llm.requests > 0 THEN c.end + PacingMs ELSE c.end

(* time.sleep(0.2) entered when the classification of c has returned *)
WakeTime(c) == c.end + PacingMs

(***************************************************************************)
(* Inputs                                                                  *)
(***************************************************************************)
Sources == {"LegacyCRM", "WebServer"}

Messages ==
    { Str(<<"User", "User123", "logged", "in", ".">>),
      Str(<<"File", "unauthorized", "uploaded", "successfully", "by", "user", "User456",
            ".">>),
      Str(<<"Unauthorized", "access", "attempt", "detected", ".">>),
      Str(<<"Hello", "from", "worker", "process">>),
      Str(<<>>) }

(* The dicts batch_classify is handed: well-formed records and records     *)
(* lacking one of the two keys.                                            *)
Record(src, message) == [source |-> src, log_message |-> message]

Records ==
    { Record("LegacyCRM", Str(<<"User", "User123", "logged", "in", ".">>)),
      Record("WebServer", Str(<<"File", "unauthorized", "uploaded", "successfully", "by",
                                "user", "User456", ".">>)),
      Record("LegacyCRM", Str(<<"Hello", "from", "worker", "process">>)),
      Record("WebServer", Str(<<>>)),
      [source |-> "WebServer"],
      [log_message |-> Str(<<"Hello", "from", "worker", "process">>)] }

WellFormed(log) == DOMAIN log = {"source", "log_message"}

(* Bodies pydantic accepts for LogRequest: both fields present and str.    *)
Validated(log) == WellFormed(log) /\ log.log_message.isStr

RECURSIVE SeqsUpTo(_, _)
SeqsUpTo(S, n) ==
    IF n = 0 THEN {<<>>}
    ELSE LET shorter == SeqsUpTo(S, n - 1) IN
         shorter \cup {Append(q, e) : q \in {p \in shorter : Len(p) = n - 1}, e \in S}

(***************************************************************************)
(* Outcomes of a call                                                      *)
(***************************************************************************)
NoRet == [kind |-> "none", exc |-> "", label |-> "", labels |-> <<>>, body |-> <<>>]
Returned(label, labels, body) ==
    [kind |-> "return", exc |-> "", label |-> label, labels |-> labels, body |-> body]
Raised(exc) == [kind |-> "raise", exc |-> exc, label |-> "", labels |-> <<>>, body |-> <<>>]

LogResponse(src, message, label) ==
    [source |-> src, log_message |-> message, label |-> label]

(* zip(request.logs, labels) turned into LogResponse objects *)
Zip(reqs, labels) ==
    LET n == IF Len(reqs) < Len(labels) THEN Len(reqs) ELSE Len(labels) IN
    [i \in 1..n |-> LogResponse(reqs[i].source, reqs[i].log_message, labels[i])]

(***************************************************************************)
(* Construction                                                            *)
(***************************************************************************)
(* What the process finds at start-up: whether models/model.pkl exists,   *)
(* whether the sentence transformer loads, whether the pickle loads, and   *)
(* whether Groq() can build a client (credentials present).                *)
Environments ==
    [model_exists : BOOLEAN, transformer_loads : BOOLEAN, pickle_loads : BOOLEAN,
     client_ok : BOOLEAN]

Init ==
    /\ env \in Environments
    /\ constructed = "new"
    /\ regex_rules = <<>>
    /\ label_map = <<>>
    /\ transformer = None
    /\ clf = None
    /\ groq = None
    /\ now = 0
    /\ pc = [t \in Threads |-> "idle"]
    /\ entry = [t \in Threads |-> "none"]
    /\ logs = [t \in Threads |-> <<>>]
    /\ idx = [t \in Threads |-> 0]
    /\ results = [t \in Threads |-> <<>>]
    /\ wake = [t \in Threads |-> 0]
    /\ last = [t \in Threads |-> NoCall]
    /\ first = [t \in Threads |-> 0]
    /\ ret = [t \in Threads |-> NoRet]

(* _load_models with a handler that logs and goes on *)
LoadModels_Swallow(model_exists, transformer_loads, pickle_loads) ==
    IF ~model_exists THEN [ok |-> TRUE, transformer |-> None, clf |-> None]
    ELSE IF ~transformer_loads THEN [ok |-> TRUE, transformer |-> None, clf |-> None]
    ELSE IF ~pickle_loads THEN [ok |-> TRUE, transformer |-> "loaded", clf |-> None]
    ELSE [ok |-> TRUE, transformer |-> "loaded", clf |-> "loaded"]

(* BertProcessor._load_models: both artifacts, or the error is re-raised.  *)
LoadModels(model_exists, transformer_loads, pickle_loads) ==
    IF ~model_exists THEN [ok |-> FALSE, transformer |-> None, clf |-> None]
    ELSE IF ~transformer_loads THEN [ok |-> FALSE, transformer |-> None, clf |-> None]
    ELSE IF ~pickle_loads THEN [ok |-> FALSE, transformer |-> "loaded", clf |-> None]
    ELSE [ok |-> TRUE, transformer |-> "loaded", clf |-> "loaded"]

(* LlmProcessor.__init__ *)
LlmInit(client_ok) == IF client_ok THEN "client" ELSE None

(* LogClassifier.__init__: RegexProcessor(), BertProcessor(), LlmProcessor() *)
Construct ==
    /\ constructed = "new"
    /\ LET m == LoadModels(env.model_exists, env.transformer_loads, env.pickle_loads)
           client_ok == env.client_ok
       IN IF m.ok
          THEN /\ constructed' = "ok"
               /\ regex_rules' = REGEX_RULES
               /\ label_map' = LABEL_MAP
               /\ transformer' = m.transformer
               /\ clf' = m.clf
               /\ groq' = LlmInit(client_ok)
          ELSE /\ constructed' = "failed"
               /\ UNCHANGED <<regex_rules, label_map, transformer, clf, groq>>
    /\ UNCHANGED <<env, now, pc, entry, logs, idx, results, wake, last, first, ret>>

(***************************************************************************)
(* Calls                                                                   *)
(***************************************************************************)
CanCall(t) ==
    /\ constructed = "ok"
    /\ pc[t] = "idle"
    /\ entry[t] = "none"

(* classify_message discarding the client after a request that failed     *)
ClassifyMessageCall_DropClient(t) ==
    /\ CanCall(t)
    /\ \E src \in Sources, message \in Messages \cup {NonStr} :
       \E call \in ClassifyMessage(src, message) :
          LET c == Timed(call) IN
          /\ last' = [last EXCEPT ![t] = c]
          /\ ret' = [ret EXCEPT ![t] = Outcome(c)]
          /\ now' = c.end
          /\ groq' = IF c.la.kind \in {"raise", "timeout"} THEN None ELSE groq
    /\ entry' = [entry EXCEPT ![t] = "classify_message"]
    /\ logs' = [logs EXCEPT ![t] = <<>>]
    /\ results' = [results EXCEPT ![t] = <<>>]
    /\ idx' = [idx EXCEPT ![t] = 0]
    /\ UNCHANGED <<env, constructed, regex_rules, label_map, transformer, clf, pc, wake, first>>

(* A direct call classifier.classify_message(src, message) *)
ClassifyMessageCall(t) ==
    /\ CanCall(t)
    /\ \E src \in Sources, message \in Messages \cup {NonStr} :
       \E call \in ClassifyMessage(src, message) :
          LET c == Timed(call) IN
          /\ last' = [last EXCEPT ![t] = c]
          /\ ret' = [ret EXCEPT ![t] = Outcome(c)]
          /\ now' = c.end
    /\ entry' = [entry EXCEPT ![t] = "classify_message"]
    /\ logs' = [logs EXCEPT ![t] = <<>>]
    /\ results' = [results EXCEPT ![t] = <<>>]
    /\ idx' = [idx EXCEPT ![t] = 0]
    /\ UNCHANGED <<env, classifier, pc, wake, first>>

(* POST /classify: classify_log_api *)
ClassifyLogApi(t) ==
    /\ CanCall(t)
    /\ \E src \in Sources, message \in Messages :
       \E call \in ClassifyMessage(src, message) :
          LET c == Timed(call) IN
          /\ last' = [last EXCEPT ![t] = c]
          /\ ret' = [ret EXCEPT ![t] =
                        IF c.raised THEN Raised("HTTPException")
                        ELSE Returned(c.label, <<>>,
                                      <<LogResponse(src, message, c.label)>>)]
          /\ now' = c.end
    /\ entry' = [entry EXCEPT ![t] = "classify_log_api"]
    /\ logs' = [logs EXCEPT ![t] = <<>>]
    /\ results' = [results EXCEPT ![t] = <<>>]
    /\ idx' = [idx EXCEPT ![t] = 0]
    /\ UNCHANGED <<env, classifier, pc, wake, first>>

(* batch_classify is entered: results = [] and the loop starts.            *)
BatchEnter(t, e, input) ==
    /\ pc' = [pc EXCEPT ![t] = "loop"]
    /\ entry' = [entry EXCEPT ![t] = e]
    /\ logs' = [logs EXCEPT ![t] = input]
    /\ idx' = [idx EXCEPT ![t] = 1]
    /\ results' = [results EXCEPT ![t] = <<>>]
    /\ last' = [last EXCEPT ![t] = NoCall]
    /\ first' = [first EXCEPT ![t] = 0]
    /\ ret' = [ret EXCEPT ![t] = NoRet]
    /\ UNCHANGED <<env, classifier, now, wake>>

(* A direct call classifier.batch_classify(logs) *)
BatchClassifyCall(t) ==
    /\ CanCall(t)
    /\ \E input \in SeqsUpTo(Records, MaxBatch) : BatchEnter(t, "batch_classify", input)

(* POST /classify/batch: classify_batch_logs_api, up to its call of        *)
(* batch_classify on the dumped request logs.                              *)
ClassifyBatchLogsApi(t) ==
    /\ CanCall(t)
    /\ \E input \in SeqsUpTo({r \in Records : Validated(r)}, MaxBatch) :
          BatchEnter(t, "classify_batch_logs_api", input)

(* The exception leaves batch_classify; the API handler turns it into a    *)
(* 500 response.                                                           *)
Propagate(e, exc) == IF e = "classify_batch_logs_api" THEN Raised("HTTPException") ELSE Raised(exc)

(* The loop body with a handler around the record: a fault puts the       *)
(* sentinel in the record's place and the loop goes on.                    *)
BatchStep_Isolating(t) ==
    /\ pc[t] = "loop"
    /\ idx[t] <= Len(logs[t])
    /\ LET log == logs[t][idx[t]] IN
       IF ~WellFormed(log)
       THEN /\ results' = [results EXCEPT ![t] = AppendResult(@, Unclassified)]
            /\ wake' = [wake EXCEPT ![t] = now + PacingMs]
            /\ pc' = [pc EXCEPT ![t] = "sleep"]
            /\ UNCHANGED <<ret, last, first, now>>
       ELSE \E call \in ClassifyMessage(log.source, log.log_message) :
               LET c == Timed(call) IN
               /\ last' = [last EXCEPT ![t] = c]
               /\ first' = [first EXCEPT ![t] = IF idx[t] = 1 THEN c.start ELSE @]
               /\ now' = c.end
               /\ results' = [results EXCEPT ![t] =
                                 AppendResult(@, IF c.raised THEN Unclassified ELSE c.label)]
               /\ wake' = [wake EXCEPT ![t] = WakeTime(c)]
               /\ pc' = [pc EXCEPT ![t] = "sleep"]
               /\ UNCHANGED ret
    /\ UNCHANGED <<env, classifier, entry, logs, idx>>

(* The loop body appending to an accumulator kept on the instance         *)
(* (self.results), which every call running on the classifier sees.        *)
BatchStep_SharedResults(t) ==
    /\ pc[t] = "loop"
    /\ idx[t] <= Len(logs[t])
    /\ LET log == logs[t][idx[t]] IN
       IF ~WellFormed(log)
       THEN /\ pc' = [pc EXCEPT ![t] = "idle"]
            /\ ret' = [ret EXCEPT ![t] = Propagate(entry[t], "KeyError")]
            /\ UNCHANGED <<results, last, first, wake, now>>
       ELSE \E call \in ClassifyMessage(log.source, log.log_message) :
               LET c == Timed(call) IN
               /\ last' = [last EXCEPT ![t] = c]
               /\ first' = [first EXCEPT ![t] = IF idx[t] = 1 THEN c.start ELSE @]
               /\ now' = c.end
               /\ IF c.raised
                  THEN /\ pc' = [pc EXCEPT ![t] = "idle"]
                       /\ ret' = [ret EXCEPT ![t] = Propagate(entry[t], "Exception")]
                       /\ UNCHANGED <<results, wake>>
                  ELSE /\ results' = [u \in Threads |->
                                         IF u = t \/ pc[u] # "idle"
                                         THEN AppendResult(results[u], c.label)
                                         ELSE results[u]]
                       /\ wake' = [wake EXCEPT ![t] = WakeTime(c)]
                       /\ pc' = [pc EXCEPT ![t] = "sleep"]
                       /\ UNCHANGED ret
    /\ UNCHANGED <<env, classifier, entry, logs, idx>>

(* One iteration of the loop up to the sleep:                              *)
(* results.append(self.classify_message(log["source"], log["log_message"]))*)
(* A missing key, or a classify_message that raises, leaves the loop and   *)
(* batch_classify with the exception.                                      *)
BatchStep(t) ==
    /\ pc[t] = "loop"
    /\ idx[t] <= Len(logs[t])
    /\ LET log == logs[t][idx[t]] IN
       IF ~WellFormed(log)
       THEN /\ pc' = [pc EXCEPT ![t] = "idle"]
            /\ ret' = [ret EXCEPT ![t] = Propagate(entry[t], "KeyError")]
            /\ UNCHANGED <<results, last, first, wake, now>>
       ELSE \E call \in ClassifyMessage(log.source, log.log_message) :
               LET c == Timed(call) IN
               /\ last' = [last EXCEPT ![t] = c]
               /\ first' = [first EXCEPT ![t] = IF idx[t] = 1 THEN c.start ELSE @]
               /\ now' = c.end
               /\ IF c.raised
                  THEN /\ pc' = [pc EXCEPT ![t] = "idle"]
                       /\ ret' = [ret EXCEPT ![t] = Propagate(entry[t], "Exception")]
                       /\ UNCHANGED <<results, wake>>
                  ELSE /\ results' = [results EXCEPT ![t] = AppendResult(@, c.label)]
                       /\ wake' = [wake EXCEPT ![t] = WakeTime(c)]
                       /\ pc' = [pc EXCEPT ![t] = "sleep"]
                       /\ UNCHANGED ret
    /\ UNCHANGED <<env, classifier, entry, logs, idx>>

(* Time passes while some thread sleeps.                                   *)
Tick ==
    /\ \E t \in Threads : pc[t] = "sleep" /\ now < wake[t]
    /\ now' = now + TickMs
    /\ UNCHANGED <<env, classifier, pc, entry, logs, idx, results, wake, last, first, ret>>

(* time.sleep(0.2) returns and the loop moves to the next record.          *)
BatchWake(t) ==
    /\ pc[t] = "sleep"
    /\ now >= wake[t]
    /\ pc' = [pc EXCEPT ![t] = "loop"]
    /\ idx' = [idx EXCEPT ![t] = @ + 1]
    /\ UNCHANGED <<env, classifier, now, entry, logs, results, wake, last, first, ret>>

(* The loop is exhausted: return results; the API handler pairs them with  *)
(* the request logs.                                                       *)
BatchReturn(t) ==
    /\ pc[t] = "loop"
    /\ idx[t] > Len(logs[t])
    /\ pc' = [pc EXCEPT ![t] = "idle"]
    /\ ret' = [ret EXCEPT ![t] =
                  Returned("", results[t],
                           IF entry[t] = "classify_batch_logs_api"
                           THEN Zip(logs[t], results[t]) ELSE <<>>)]
    /\ UNCHANGED <<env, classifier, now, entry, logs, idx, results, wake, last, first>>

(* The caller has taken the outcome of its call; the thread is free for   *)
(* the next one.  Only differences of clock readings are observed, so with *)
(* no call in progress the clock is read from zero again.                  *)
Release(t) ==
    /\ pc[t] = "idle"
    /\ entry[t] # "none"
    /\ entry' = [entry EXCEPT ![t] = "none"]
    /\ logs' = [logs EXCEPT ![t] = <<>>]
    /\ idx' = [idx EXCEPT ![t] = 0]
    /\ results' = [results EXCEPT ![t] = <<>>]
    /\ last' = [last EXCEPT ![t] = NoCall]
    /\ first' = [first EXCEPT ![t] = 0]
    /\ ret' = [ret EXCEPT ![t] = NoRet]
    /\ wake' = [wake EXCEPT ![t] = 0]
    /\ now' = IF \A u \in Threads \ {t} : pc[u] = "idle" /\ entry[u] = "none"
              THEN 0 ELSE now
    /\ UNCHANGED <<env, classifier, pc>>

Step(t) ==
    \/ ClassifyMessageCall(t)
    \/ ClassifyLogApi(t)
    \/ BatchClassifyCall(t)
    \/ ClassifyBatchLogsApi(t)
    \/ BatchStep(t)
    \/ BatchWake(t)
    \/ BatchReturn(t)
    \/ Release(t)

Next ==
    \/ Construct
    \/ Tick
    \/ \E t \in Main : Step(t)

Spec == Init /\ [][Next]_vars

(***************************************************************************)
(* LlmProcessor.classify called on its own, over every short response      *)
(***************************************************************************)
ResponseTokens == {OpenTag, CloseTag, " ", "Error", "Security Alert"}
Responses == SeqsUpTo(ResponseTokens, MaxTokens)

(* classifier.llm_processor.classify(message), the backend answering with  *)
(* a completion whose content is one of Responses.                         *)
LlmClassifyCall(t) ==
    /\ CanCall(t)
    /\ \E toks \in Responses :
          LET a == LlmResponse(<<Str(toks)>>)
              l == LlmClassify(groq, a)
              c == CallRec("", Str(<<"Hello", "from", "worker", "process">>), <<"llm">>,
                           None, NoBert, l, NoBertAnswer,
                           IF l.requests > 0 THEN a ELSE NoLlmAnswer, l.label)
          IN  /\ last' = [last EXCEPT ![t] = c]
              /\ ret' = [ret EXCEPT ![t] = Outcome(c)]
    /\ entry' = [entry EXCEPT ![t] = "llm_classify"]
    /\ UNCHANGED <<env, classifier, now, pc, logs, idx, results, wake, first>>

LlmNext ==
    \/ Construct
    \/ \E t \in Main : LlmClassifyCall(t)

LlmSpec == Init /\ [][LlmNext]_vars

(***************************************************************************)
(* The web layer: request handlers run on the threads of a pool, all on    *)
(* the one module-level classifier.  Each thread serves one request; the   *)
(* requests carry records of ConcRecords, the BERT model and the backend   *)
(* answer from ConcBert and ConcLlm.                                       *)
(***************************************************************************)
ConcRecords ==
    { Record("WebServer", Str(<<"File", "unauthorized", "uploaded", "successfully", "by",
                                "user", "User456", ".">>)),
      Record("LegacyCRM", Str(<<"Hello", "from", "worker", "process">>)) }

ConcBert == { NoBertAnswer, BertAnswer("none", <<499999, 300000, 200001>>, 0) }

ConcLlm ==
    { NoLlmAnswer,
      LlmResponse(<< Str(<<"Sure", " ", OpenTag, " ", "Workflow Error", "\n", CloseTag,
                           OpenTag, "Error", CloseTag>>) >>) }

ConcAnswersOk(c) == c.ba \in ConcBert /\ c.la \in ConcLlm

(* POST /classify/batch on thread t *)
ConcBatchRequest(t) ==
    /\ ClassifyBatchLogsApi(t)
    /\ logs'[t] \in SeqsUpTo(ConcRecords, MaxBatch)

(* POST /classify on thread t *)
ConcSingleRequest(t) ==
    /\ ClassifyLogApi(t)
    /\ Record(last'[t].source, last'[t].message) \in ConcRecords
    /\ ConcAnswersOk(last'[t])

(* One iteration of the loop of batch_classify on thread t *)
ConcBatchStep(t) ==
    /\ BatchStep(t)
    /\ last'[t] # last[t] => ConcAnswersOk(last'[t])

ConcNext ==
    \/ Construct
    \/ Tick
    \/ \E t \in Threads :
          \/ ConcBatchRequest(t)
          \/ ConcSingleRequest(t)
          \/ ConcBatchStep(t)
          \/ BatchWake(t)
          \/ BatchReturn(t)

ConcSpec == Init /\ [][ConcNext]_vars

(***************************************************************************)
(* BertProcessor.classify called on its own, as test_bert.py does, on an   *)
(* instance as constructed or with artifacts taken away afterwards         *)
(***************************************************************************)
(* test_classify_not_initialized: processor.transformer = None and/or      *)
(* processor.clf = None on a constructed instance.                         *)
TestNotInitialized(t) ==
    /\ CanCall(t)
    /\ \E drop_transformer, drop_clf \in BOOLEAN :
          /\ drop_transformer \/ drop_clf
          /\ transformer' = IF drop_transformer THEN None ELSE transformer
          /\ clf' = IF drop_clf THEN None ELSE clf
    /\ entry' = [entry EXCEPT ![t] = "test_classify_not_initialized"]
    /\ UNCHANGED <<env, constructed, regex_rules, label_map, groq, now, pc, logs, idx,
                   results, wake, last, first, ret>>

(* processor.classify(message) on the BERT stage, whatever the model       *)
(* objects answer when they are asked.                                     *)
BertClassifyCall(t) ==
    /\ constructed = "ok"
    /\ pc[t] = "idle"
    /\ entry[t] \in {"none", "test_classify_not_initialized"}
    /\ ~last[t].called
    /\ \E message \in Messages, ba \in BertAnswers :
          LET b == BertClassify(transformer, clf, label_map, ba)
              c == CallRec("", message, <<"bert">>, None, b, NoLlm,
                           IF b.ops = <<>> THEN NoBertAnswer ELSE ba, NoLlmAnswer, b.label)
          IN  /\ last' = [last EXCEPT ![t] = c]
              /\ ret' = [ret EXCEPT ![t] = Outcome(c)]
    /\ entry' = [entry EXCEPT ![t] = IF @ = "none" THEN "bert_classify" ELSE @]
    /\ UNCHANGED <<env, classifier, now, pc, logs, idx, results, wake, first>>

BertNext ==
    \/ Construct
    \/ \E t \in Main : TestNotInitialized(t) \/ BertClassifyCall(t)

BertSpec == Init /\ [][BertNext]_vars

TypeOK ==
    /\ constructed \in {"new", "ok", "failed"}
    /\ \A t \in Threads : pc[t] \in {"idle", "loop", "sleep"}
    /\ \A t \in Threads : Len(results[t]) <= MaxBatch

(***************************************************************************)
(* Properties                                                              *)
(***************************************************************************)
SingleEntries == {"classify_message", "classify_log_api"}
BatchEntries == {"batch_classify", "classify_batch_logs_api"}

(* What each stage answers for the recorded call c, computed from the      *)
(* stage itself.  The answers of the regex stage with the rule list of     *)
(* __init__ are tabulated once.                                            *)
RegexTable == [m \in Messages \cup {NonStr} |-> RegexClassify(REGEX_RULES, m)]
RegexOf(c) == RegexTable[c.message]
BertOf(c) == BertClassify(transformer, clf, label_map, c.ba)
LlmOf(c) == LlmClassify(groq, c.la)

C3_StateOk ==
    \A t \in Threads :
        entry[t] \in BatchEntries =>
            /\ pc[t] = "loop" => Len(results[t]) = idx[t] - 1
            /\ pc[t] = "sleep" =>
                   /\ Len(results[t]) = idx[t]
                   /\ last[t].called
                   /\ last[t].source = logs[t][idx[t]].source
                   /\ last[t].message = logs[t][idx[t]].log_message
                   /\ results[t][idx[t]] = last[t].label
            /\ ret[t].kind = "return" =>
                   /\ ret[t].labels = results[t]
                   /\ Len(ret[t].labels) = Len(logs[t])
                   /\ entry[t] = "classify_batch_logs_api" =>
                          /\ Len(ret[t].body) = Len(logs[t])
                          /\ \A i \in 1..Len(logs[t]) :
                                 ret[t].body[i] =
                                     LogResponse(logs[t][i].source, logs[t][i].log_message,
                                                 ret[t].labels[i])
            /\ ret[t].kind = "raise" => \E i \in 1..Len(logs[t]) : ~WellFormed(logs[t][i])

C3_StepOk ==
    \A t \in Threads :
        (pc[t] = "loop" /\ pc'[t] = "sleep") =>
            /\ Len(results'[t]) = Len(results[t]) + 1
            /\ SubSeq(results'[t], 1, Len(results[t])) = results[t]

C3_BatchOrder == []C3_StateOk /\ [][C3_StepOk]_vars

(* The batch API answered two logs with two different labels, each paired  *)
(* with its own log.                                                       *)
C3_Witness ==
    \E t \in Threads :
        /\ entry[t] = "classify_batch_logs_api"
        /\ ret[t].kind = "return"
        /\ Len(ret[t].body) = 2
        /\ ret[t].body[1].log_message # ret[t].body[2].log_message
        /\ ret[t].body[1].label = "USER_ACTION"
        /\ ret[t].body[2].label = Miscellaneous

(* C4: batch_classify handles the records one after the other in input    *)
(* order; the classification of a record starts no earlier than one full   *)
(* pacing wait after the previous one completed, whichever stage labelled  *)
(* it, so N records have at least N-1 waits between the first and the last *)
(* classification.                                                         *)
C4_StateOk ==
    \A t \in Threads :
        (entry[t] \in BatchEntries /\ last[t].called) =>
            /\ last[t].start >= first[t] + (Len(results[t]) - 1) * PacingMs
            /\ pc[t] = "sleep" => wake[t] >= last[t].end + PacingMs

C4_StepOk ==
    \A t \in Threads :
        /\ (pc[t] = "loop" /\ pc'[t] = "sleep") =>
               /\ last'[t].message = logs[t][idx[t]].log_message
               /\ idx[t] > 1 =>
                      /\ last[t].called
                      /\ last[t].message = logs[t][idx[t] - 1].log_message
                      /\ last'[t].start >= last[t].end + PacingMs
        /\ (pc[t] = "sleep" /\ pc'[t] = "loop") =>
               /\ idx'[t] = idx[t] + 1
               /\ now >= last[t].end + PacingMs

C4_Pacing == []C4_StateOk /\ [][C4_StepOk]_vars

(* Two records that the regex stage labelled, the second one classified a  *)
(* full wait after the first.                                              *)
C4_Witness ==
    \E t \in Threads :
        /\ entry[t] \in BatchEntries
        /\ results[t] = <<"USER_ACTION", "SYSTEM_NOTIFICATION">>
        /\ last[t].stages = <<"regex">>
        /\ last[t].start >= first[t] + PacingMs

(* C5: once a LogClassifier exists, classify_message always returns a      *)
(* string label and never raises, for every message (the empty string and  *)
(* non-text included) and every fault of a stage: the faults end as None,  *)
(* "Unclassified" or "Miscellaneous".                                      *)
C5_NeverRaises ==
    \A t \in Threads :
        last[t].called =>
            LET c == last[t] IN
            /\ constructed = "ok"
            /\ ~c.raised
            /\ c.label # Exc
            /\ c.label \in STRING
            /\ ~c.message.isStr => c.regex = None
            /\ c.ba.fault \in {"encode", "predict_proba", "predict"} =>
                   c.bert.label = Unclassified
            /\ c.la.kind \in {"raise", "timeout"} => c.label = Unclassified
            /\ entry[t] \in SingleEntries =>
                   ret[t].kind = "return" /\ ret[t].label = c.label

(* The empty string classified while encode raised and the backend call    *)
(* raised: the call still returned a label.                                *)
C5_Witness ==
    \E t \in Threads :
        /\ last[t].called
        /\ last[t].message = Str(<<>>)
        /\ last[t].ba.fault = "encode"
        /\ last[t].la.kind = "raise"
        /\ ret[t].kind = "return"
        /\ ret[t].label = Unclassified

(* C6 as stated: a fault raised while handling one record of a batch (a    *)
(* record lacking 'source' or 'log_message') does not abort                *)
(* batch_classify; the faulty record gets a sentinel label, the rest are   *)
(* classified and the result keeps the length and order of the input.      *)
C6_Original ==
    \A t \in Threads :
        entry[t] \in BatchEntries =>
            /\ ret[t].kind # "raise"
            /\ ret[t].kind = "return" => Len(ret[t].labels) = Len(logs[t])
            /\ \A i \in 1..Len(results[t]) :
                   ~WellFormed(logs[t][i]) => results[t][i] \in {Unclassified, Miscellaneous}

(* C6 as amended: a fault raised while handling one record of a batch      *)
(* aborts batch_classify at that record: the exception reaches the caller, *)
(* no label list is returned, no label is ever produced for the faulty     *)
(* record and the records after it are not classified; a batch that        *)
(* returns had no faulty record.                                           *)
C6_FaultAborts ==
    \A t \in Threads :
        entry[t] \in BatchEntries =>
            /\ \A i \in 1..Len(results[t]) : WellFormed(logs[t][i])
            /\ ret[t].kind = "return" =>
                   \A i \in 1..Len(logs[t]) : WellFormed(logs[t][i])
            /\ ret[t].kind = "raise" =>
                   /\ pc[t] = "idle"
                   /\ idx[t] \in 1..Len(logs[t])
                   /\ ~WellFormed(logs[t][idx[t]])
                   /\ Len(results[t]) = idx[t] - 1
                   /\ ret[t].labels = <<>>
                   /\ ret[t].exc = "KeyError"

(* A batch of two aborted at its second record, the label already computed *)
(* for the first one not handed back.                                      *)
C6_Witness ==
    \E t \in Threads :
        /\ entry[t] = "batch_classify"
        /\ ret[t].kind = "raise"
        /\ Len(logs[t]) = 2
        /\ idx[t] = 2
        /\ Len(results[t]) = 1
        /\ ret[t].labels = <<>>

(* The label classify_message returns for the recorded call c, from its    *)
(* own message and the answers given for it.                               *)
CascadeOf(c) ==
    IF RegexOf(c) # None THEN RegexOf(c)
    ELSE IF BertOf(c).label # Unclassified THEN BertOf(c).label
    ELSE LlmOf(c).label

(* C7: if the backend call made for record k of a batch fails or times     *)
(* out, the batch goes on, position k holds "Unclassified" and the labels  *)
(* at the other positions are what their own records give (the only abort  *)
(* of a batch is at a record that itself lacks a key).                     *)
C7_StateOk ==
    \A t \in Threads :
        (entry[t] \in BatchEntries /\ last[t].called
            /\ last[t].la.kind \in {"raise", "timeout"}) =>
            /\ ret[t].kind = "raise" => ~WellFormed(logs[t][idx[t]])
            /\ Len(results[t]) >= 1
            /\ results[t][Len(results[t])] = Unclassified
            /\ pc[t] = "sleep" =>
                   ret[t].kind = "none" /\ Len(results[t]) = idx[t]
            /\ ret[t].kind = "return" =>
                   /\ Len(ret[t].labels) = Len(logs[t])
                   /\ ret[t].labels[Len(logs[t])] = Unclassified

C7_StepOk ==
    \A t \in Threads :
        (pc[t] = "loop" /\ idx[t] <= Len(logs[t]) /\ last'[t] # last[t]) =>
            /\ last'[t].message = logs[t][idx[t]].log_message
            /\ results'[t] = Append(results[t], CascadeOf(last'[t]))

C7_LlmFailureIsolated == []C7_StateOk /\ [][C7_StepOk]_vars

(* The second record's backend call timed out: its position holds          *)
(* "Unclassified" next to the first record's label, and the batch is still *)
(* running.                                                                *)
C7_Witness ==
    \E t \in Threads :
        /\ entry[t] \in BatchEntries
        /\ pc[t] = "sleep"
        /\ idx[t] = 2
        /\ last[t].la.kind = "timeout"
        /\ results[t] = <<"USER_ACTION", Unclassified>>

(* The response carries a delimited label *)
HasLabel(a) ==
    /\ a.kind = "response"
    /\ a.choices # <<>>
    /\ a.choices[1].isStr
    /\ LabelSpan(a.choices[1].toks) # <<0, 0>>

(* C8: the LLM stage keeps its sentinels apart: a response without a       *)
(* delimited label (empty or missing content included) gives               *)
(* "Miscellaneous", and "Unclassified" comes only from a call that could   *)
(* not be made or that raised or timed out.                                *)
C8_SentinelsDistinct ==
    \A t \in Threads :
        (last[t].called /\ last[t].llm.via # "skipped") =>
            LET c == last[t] IN
            /\ (c.la.kind = "response" /\ ~HasLabel(c.la)) => c.llm.label = Miscellaneous
            /\ c.llm.label = Unclassified => c.la.kind # "response"

(* C9: the confidence gate of the BERT stage is strict: the prediction is  *)
(* discarded as "Unclassified" by the gate exactly when the maximum class  *)
(* probability is below 0.5; at 0.5 or above the gate lets it through, and *)
(* below 0.5 no real label comes out of the stage.                         *)
C9_GateStrict ==
    \A t \in Threads :
        (last[t].called /\ last[t].ba.fault \in {"none", "predict"}) =>
            LET c == last[t]
                m == SeqMax(c.ba.proba)
                predicted == \E i \in 1..Len(c.bert.ops) : c.bert.ops[i] = "predict"
            IN
            /\ c.bert.via = "gate" <=> m < 500000
            /\ m < 500000 => c.bert.label = Unclassified /\ ~predicted
            /\ m < 500000 => c.label = c.llm.label /\ c.llm.via # "skipped"
            /\ m >= 500000 => predicted
            /\ (m >= 500000 /\ c.ba.fault = "none") =>
                   c.bert.label = Get(label_map, c.ba.pred, Unclassified)

(* A maximum probability of exactly 0.5 accepted as a real label *)
C9_Witness ==
    \E t \in Threads :
        /\ last[t].called
        /\ last[t].ba.fault = "none"
        /\ SeqMax(last[t].ba.proba) = 500000
        /\ last[t].bert.label = "Critical Error"
        /\ last[t].label = "Critical Error"

(* The rules of __init__ that match each message, tabulated once.          *)
MatchTable ==
    [m \in Messages |-> {i \in 1..Len(REGEX_RULES) : Search(REGEX_RULES[i], m.toks)}]

(* C10: RegexProcessor.classify returns the label of the first rule, in    *)
(* list order, whose pattern matches; when two or more rules match, the    *)
(* earliest one decides.                                                   *)
C10_FirstMatchWins ==
    \A t \in Threads :
        (last[t].called /\ last[t].message.isStr) =>
            LET matching == MatchTable[last[t].message] IN
            /\ regex_rules = REGEX_RULES
            /\ matching = {} => last[t].regex = None
            /\ matching # {} =>
                   LET i == CHOOSE a \in matching : \A b \in matching : a <= b IN
                   /\ last[t].regex = REGEX_RULES[i].label
                   /\ last[t].label = REGEX_RULES[i].label

(* A message matched by the upload rule and by the later security-keyword  *)
(* rule, labelled by the upload rule.                                      *)
C10_Witness ==
    \E t \in Threads :
        /\ last[t].called
        /\ last[t].message.isStr
        /\ {7, 11} \subseteq MatchTable[last[t].message]
        /\ REGEX_RULES[7].label # REGEX_RULES[11].label
        /\ last[t].regex = "SYSTEM_NOTIFICATION"

(* C11: the regex stage is deterministic: a message matched by a rule gets *)
(* a matching rule's label, a message matched by no rule gets None, and    *)
(* the answer depends on the message text alone: not on the source, the    *)
(* readiness of the other stages, earlier calls or repetition.             *)
C11_StateOk ==
    \A t \in Threads :
        (last[t].called /\ last[t].message.isStr) =>
            LET matching == MatchTable[last[t].message] IN
            /\ "regex" \in {last[t].stages[i] : i \in 1..Len(last[t].stages)}
            /\ matching = {} <=> last[t].regex = None
            /\ matching # {} => \E i \in matching : last[t].regex = REGEX_RULES[i].label

C11_StepOk ==
    \A t \in Threads :
        (last[t].called /\ last'[t].called /\ last'[t].message = last[t].message) =>
            last'[t].regex = last[t].regex

C11_RegexDeterministic == []C11_StateOk /\ [][C11_StepOk]_vars

(* The same message classified twice in a row in one batch, with no LLM    *)
(* client, labelled by its rule both times.                                *)
C11_Witness ==
    \E t \in Threads :
        /\ entry[t] \in BatchEntries
        /\ idx[t] = 2
        /\ Len(results[t]) = 2
        /\ logs[t][1].log_message = logs[t][2].log_message
        /\ MatchTable[logs[t][2].log_message] = {1}
        /\ groq = None
        /\ results[t] = <<"USER_ACTION", "USER_ACTION">>

(* C12: LogClassifier() succeeds if and only if both BERT artifacts load:  *)
(* a missing model file, a transformer that does not load or a pickle that *)
(* does not load makes construction fail and no pipeline exists to call;   *)
(* a client that cannot be built never makes construction fail, it only    *)
(* leaves groq at None.                                                    *)
C12_ConstructionIffArtifacts ==
    LET loads == env.model_exists /\ env.transformer_loads /\ env.pickle_loads IN
    /\ constructed # "new" => (constructed = "ok" <=> loads)
    /\ constructed = "ok" =>
           /\ transformer # None /\ clf # None
           /\ regex_rules = REGEX_RULES
           /\ groq = None <=> ~env.client_ok
    /\ constructed # "ok" =>
           \A t \in Threads :
               ~last[t].called /\ entry[t] = "none" /\ ret[t] = NoRet /\ pc[t] = "idle"

(* The model file is there and the transformer loads, the pickle does not: *)
(* construction failed although the client could have been built.          *)
C12_Witness ==
    /\ constructed = "failed"
    /\ env.model_exists /\ env.transformer_loads /\ ~env.pickle_loads
    /\ env.client_ok
    /\ clf = None

(* C13: when the client could not be built at construction, the LLM stage  *)
(* stays usable: every call that reaches it returns "Unclassified" at      *)
(* once, with no request to the backend, and the client stays absent for   *)
(* the life of the instance.                                               *)
C13_StateOk ==
    \A t \in Threads :
        (constructed = "ok" /\ groq = None /\ last[t].called) =>
            LET c == last[t] IN
            /\ ~c.raised
            /\ c.llm.requests = 0
            /\ c.la = NoLlmAnswer
            /\ c.end = c.start
            /\ c.llm.via # "skipped" =>
                   /\ c.llm = LlmResult(Unclassified, "noclient", 0)
                   /\ c.label = Unclassified

C13_StepOk == (constructed = "ok" /\ groq = None) => groq' = None

C13_NoClientNoCall == []C13_StateOk /\ [][C13_StepOk]_vars

(* Without a client, the second record of a batch reached the LLM stage    *)
(* like the first and both got "Unclassified" with no request made.        *)
C13_Witness ==
    \E t \in Threads :
        /\ groq = None
        /\ ~env.client_ok
        /\ entry[t] \in BatchEntries
        /\ idx[t] = 2
        /\ results[t] = <<Unclassified, Unclassified>>
        /\ last[t].llm.via = "noclient"
        /\ last[t].llm.requests = 0
        /\ last[t].bert.via = "gate"

(* C14: BertProcessor.classify never raises to its caller: a fault of      *)
(* encode, predict_proba or predict is caught and becomes "Unclassified",  *)
(* so the stage only ever hands back a table label or "Unclassified" and   *)
(* the pipeline goes on to the LLM stage.                                  *)
C14_BertNeverRaises ==
    \A t \in Threads :
        (last[t].called /\ last[t].bert.via # "skipped") =>
            LET c == last[t]
                called(op) == \E i \in 1..Len(c.bert.ops) : c.bert.ops[i] = op
            IN
            /\ c.bert.via # "raise"
            /\ c.bert.label \in {Unclassified} \cup {LABEL_MAP[k] : k \in DOMAIN LABEL_MAP}
            /\ (c.ba.fault \in {"encode", "predict_proba", "predict"} /\ called(c.ba.fault)) =>
                   /\ c.bert = BertResult(Unclassified, "except", c.bert.ops)
                   /\ c.bert.ops[Len(c.bert.ops)] = c.ba.fault
                   /\ c.stages = <<"regex", "bert", "llm">>
                   /\ c.label = c.llm.label
            /\ c.ba.fault = "encode" => called("encode")
            /\ c.ba.fault = "predict_proba" => called("predict_proba")
            /\ (c.ba.fault = "predict" /\ SeqMax(c.ba.proba) >= 500000) => called("predict")

(* predict raised after the gate had passed: the stage answered            *)
(* "Unclassified" and the call went on to the LLM stage and returned.      *)
C14_Witness ==
    \E t \in Threads :
        /\ last[t].called
        /\ last[t].ba.fault = "predict"
        /\ last[t].bert = BertResult(Unclassified, "except",
                                     <<"encode", "predict_proba", "predict">>)
        /\ last[t].llm.via = "parsed"
        /\ ret[t].kind = "return"

(* C15: as the class docstring of LogClassifier has it, a record from one  *)
(* of the specific sources (LegacyCRM) is classified by the LLM stage      *)
(* first: its label is the LLM stage's answer.                             *)
C15_LlmForSpecificSources ==
    \A t \in Threads :
        (last[t].called /\ last[t].source = "LegacyCRM") =>
            /\ last[t].llm.via # "skipped"
            /\ last[t].stages[1] = "llm"
            /\ last[t].label = last[t].llm.label

(* C16 as stated: when the gate passes, the BERT stage returns the table   *)
(* label of the arg-max class index of the distribution it just computed;  *)
(* an index without a table entry gives "Unclassified".                    *)
C16_Original ==
    \A t \in Threads :
        (last[t].called /\ last[t].bert.via = "map") =>
            last[t].bert.label = Get(LABEL_MAP, ArgMax(last[t].ba.proba), Unclassified)

(* C16 as amended: when the gate passes, the BERT stage asks the           *)
(* classifier a second time (predict) and returns the table label of the   *)
(* index predict hands back, whether or not that is the index at which     *)
(* the distribution has its maximum; an index without a table entry gives  *)
(* "Unclassified".                                                         *)
C16_PredictIndexMapped ==
    \A t \in Threads :
        (last[t].called /\ last[t].bert.via = "map") =>
            LET c == last[t] IN
            /\ ~Gated(SeqMax(c.ba.proba))
            /\ c.bert.ops = <<"encode", "predict_proba", "predict">>
            /\ c.ba.pred \in DOMAIN LABEL_MAP => c.bert.label = LABEL_MAP[c.ba.pred]
            /\ c.ba.pred \notin DOMAIN LABEL_MAP => c.bert.label = Unclassified
            /\ c.bert.label # Unclassified => c.label = c.bert.label

(* The classifier of test_bert.py: the maximum is at index 1, predict      *)
(* says 4, and the label is that of 4.                                     *)
C16_Witness ==
    \E t \in Threads :
        /\ last[t].called
        /\ last[t].bert.via = "map"
        /\ ArgMax(last[t].ba.proba) = 1
        /\ last[t].ba.pred = 4
        /\ last[t].bert.label = "Security Alert"
        /\ last[t].label = "Security Alert"

(* C17: one call of LlmProcessor.classify sends at most one request to the *)
(* backend and never retries: after a failed or timed-out request it       *)
(* returns "Unclassified" with that single request made, so one            *)
(* classify_message call causes at most one backend request.               *)
C17_AtMostOneRequest ==
    \A t \in Threads :
        last[t].called =>
            LET c == last[t] IN
            /\ c.llm.requests <= 1
            /\ c.llm.requests = 1 <=> c.la # NoLlmAnswer
            /\ Cardinality({i \in 1..Len(c.stages) : c.stages[i] = "llm"}) <= 1
            /\ c.la.kind \in {"raise", "timeout"} =>
                   /\ c.llm.requests = 1
                   /\ c.llm.label = Unclassified
                   /\ c.label = Unclassified
            /\ c.end - c.start <= TickMs * c.llm.requests

(* A request that timed out: one request made, "Unclassified" returned.    *)
C17_Witness ==
    \E t \in Threads :
        /\ last[t].called
        /\ last[t].la.kind = "timeout"
        /\ last[t].llm = LlmResult(Unclassified, "except", 1)
        /\ ret[t].kind = "return"
        /\ ret[t].label = Unclassified

(* The labels the rule list can give *)
RuleLabels == {REGEX_RULES[i].label : i \in 1..Len(REGEX_RULES)}

(* C18: RegexProcessor.classify only ever returns one of its rule labels   *)
(* or None: a fault while matching (a message that is not text) is         *)
(* swallowed and reported as None, and classify_message then goes on to    *)
(* the BERT stage exactly as it does for a message no rule matches.        *)
C18_RegexFaultIsNoMatch ==
    /\ \A t \in Threads :
        last[t].called =>
            LET c == last[t] IN
            /\ c.regex \in RuleLabels \cup {None}
            /\ c.stages[1] = "regex"
            /\ c.regex = None => (Len(c.stages) >= 2 /\ c.stages[2] = "bert"
                                   /\ c.bert.via # "skipped")
            /\ ~c.message.isStr => (c.regex = None /\ ~c.raised /\ c.label # Exc)
    /\ (\A t \in Threads : CanCall(t)) =>
           LET unmatched == Str(<<"Hello", "from", "worker", "process">>)
               as(m, S) == {[c EXCEPT !.message = m] : c \in S}
           IN  \A src \in Sources :
                   ClassifyMessage(src, NonStr) = as(NonStr, ClassifyMessage(src, unmatched))

(* A message that is not text: the regex stage answered None, the BERT     *)
(* stage was asked next, and the call returned a label.                    *)
C18_Witness ==
    \E t \in Threads :
        /\ last[t].called
        /\ ~last[t].message.isStr
        /\ last[t].regex = None
        /\ last[t].stages = <<"regex", "bert", "llm">>
        /\ last[t].ba.fault = "encode"
        /\ ret[t].kind = "return"
        /\ ret[t].label = last[t].llm.label

(* C19: when the response holds at least one delimited label, the LLM      *)
(* stage returns the text between the first opening delimiter and the      *)
(* nearest closing delimiter after it, with the whitespace at both ends    *)
(* removed; the text outside and any later label are ignored.              *)
C19_FirstLabelTrimmed ==
    \A t \in Threads :
        (last[t].called /\ last[t].la.kind = "response" /\ last[t].la.choices # <<>>
            /\ last[t].la.choices[1].isStr) =>
            LET toks == last[t].la.choices[1].toks
                delimited == \E i, j \in 1..Len(toks) :
                                 i < j /\ toks[i] = OpenTag /\ toks[j] = CloseTag
            IN  delimited =>
                LET i == CHOOSE a \in 1..Len(toks) :
                             toks[a] = OpenTag /\ \A b \in 1..(a - 1) : toks[b] # OpenTag
                    j == CHOOSE a \in (i + 1)..Len(toks) :
                             toks[a] = CloseTag /\ \A b \in (i + 1)..(a - 1) : toks[b] # CloseTag
                    inside == {k \in (i + 1)..(j - 1) : toks[k] \notin Whitespace}
                    text == IF inside = {} THEN ""
                            ELSE Join(SubSeq(toks,
                                     CHOOSE a \in inside : \A b \in inside : a <= b,
                                     CHOOSE a \in inside : \A b \in inside : a >= b))
                IN  /\ last[t].llm.via = "parsed"
                    /\ last[t].llm.label = text
                    /\ ret[t].kind = "return" => ret[t].label = text \/ entry[t] \in BatchEntries

(* A response with two labels: the first one is returned.                  *)
C19_Witness ==
    \E t \in Threads :
        /\ entry[t] = "llm_classify"
        /\ last[t].la = LlmResponse(<<Str(<<OpenTag, " ", "Error", CloseTag, OpenTag,
                                             CloseTag>>)>>)
        /\ last[t].llm.label = "Error"
        /\ ret[t].label = "Error"

(* C20: the pipeline keeps no state between calls: once constructed, the   *)
(* rule list, the label table, the two model artifacts and the client      *)
(* reference stay what construction made them through every                *)
(* classify_message and batch_classify call, so the label of a message is  *)
(* determined by the message and the answers of the stages asked, not by   *)
(* the calls made before.                                                  *)
C20_StateOk ==
    constructed = "ok" =>
        /\ regex_rules = REGEX_RULES
        /\ label_map = LABEL_MAP
        /\ transformer = "loaded" /\ clf = "loaded"
        /\ groq = LlmInit(env.client_ok)
        /\ \A t \in Threads : last[t].called => last[t].label = CascadeOf(last[t])

C20_StepOk ==
    /\ env' = env
    /\ constructed = "ok" => classifier' = classifier
    /\ \A t \in Threads :
          (last[t].called /\ last'[t].called /\ last'[t].message = last[t].message
              /\ last'[t].ba = last[t].ba /\ last'[t].la = last[t].la) =>
              last'[t].label = last[t].label

C20_Stateless == []C20_StateOk /\ [][C20_StepOk]_vars

(* The same record twice in one batch, the BERT stage answering alike: the *)
(* same label twice, after a first call that went to the backend and back. *)
C20_Witness ==
    \E t \in Threads :
        /\ entry[t] \in BatchEntries
        /\ idx[t] = 2
        /\ Len(logs[t]) = 2
        /\ logs[t][1] = logs[t][2]
        /\ last[t].called
        /\ last[t].bert.via = "gate"
        /\ last[t].llm.via = "parsed"
        /\ results[t] = <<last[t].label, last[t].label>>
        /\ groq = "client"
        /\ regex_rules = REGEX_RULES /\ label_map = LABEL_MAP

(* C21: the rate cap on backend requests holds across concurrent requests  *)
(* on the shared classifier: two backend requests made on different        *)
(* threads are at least one pacing interval apart, the later one starting  *)
(* no sooner than PacingMs after the earlier one ended.                    *)
C21_AggregateRateCap ==
    \A t, u \in Threads :
        (t # u /\ last[t].llm.requests > 0 /\ last[u].llm.requests > 0
            /\ last[t].start <= last[u].start) =>
            last[u].start >= last[t].end + PacingMs

C23_StateOk ==
    \A t \in Threads :
        entry[t] \in BatchEntries =>
            /\ Len(results[t]) <= Len(logs[t])
            /\ \A i \in 1..Len(results[t]) :
                   LET r == RegexTable[logs[t][i].log_message] IN
                   IF r # None THEN results[t][i] = r
                   ELSE results[t][i] \notin RuleLabels
            /\ ret[t].kind = "return" =>
                   /\ ret[t].labels = results[t]
                   /\ Len(ret[t].labels) = Len(logs[t])
                   /\ entry[t] = "classify_batch_logs_api" =>
                          \A i \in 1..Len(logs[t]) :
                              /\ ret[t].body[i].log_message = logs[t][i].log_message
                              /\ ret[t].body[i].label = results[t][i]

C23_StepOk ==
    \A t \in Threads :
        (pc[t] = "loop" /\ pc'[t] = "sleep") =>
            /\ last'[t].message = logs[t][idx[t]].log_message
            /\ results'[t] = Append(results[t], CascadeOf(last'[t]))
            /\ \A u \in Threads \ {t} :
                   /\ results'[u] = results[u]
                   /\ last'[u] = last[u]
                   /\ logs'[u] = logs[u]
                   /\ idx'[u] = idx[u]
                   /\ ret'[u] = ret[u]

C23_ConcurrentBatchesIsolated == []C23_StateOk /\ [][C23_StepOk]_vars

(* Two batches of two records, in opposite orders, each started before the *)
(* other classified its last record: each got its own labels in its own    *)
(* order.                                                                  *)
C23_Witness ==
    /\ \A t \in Threads :
          /\ entry[t] = "classify_batch_logs_api"
          /\ ret[t].kind = "return"
          /\ Len(logs[t]) = 2
    /\ logs[1] # logs[2]
    /\ ret[1].labels = <<"SYSTEM_NOTIFICATION", "Workflow Error">>
    /\ ret[2].labels = <<"Workflow Error", "SYSTEM_NOTIFICATION">>
    /\ first[2] < last[1].start
    /\ first[1] < last[2].start

====
